---- MODULE Spec2Model ----
(***************************************************************************)
(* Readability scoring and difficulty calibration (src/readability.py).   *)
(*                                                                         *)
(* A text is a sequence of one-character strings.  Numbers that the code   *)
(* holds as floats are held here as exact fractions [n |-> numerator,      *)
(* d |-> denominator] with d > 0; a value rounded to one decimal is a      *)
(* fraction over 10, to two decimals a fraction over 100.                  *)
(*                                                                         *)
(* Around the two functions stand their callers: the passage generator     *)
(* (src/content_generator.py) and the routes that store a passage and      *)
(* record reading feedback (src/app.py).                                   *)
(***************************************************************************)
EXTENDS Integers, Sequences, FiniteSets, TLC

VARIABLES
    fn,                 \* which function the caller invokes
    text,               \* argument of analyze_readability
    user_level,         \* first argument of get_difficulty_for_user
    target_challenge,   \* second argument of get_difficulty_for_user
    pc,                 \* "call" before the function ran, "return" after
    report,             \* the dict analyze_readability returned
    grade_range,        \* the tuple get_difficulty_for_user returned
    count,              \* the integer a count_ function returned
    other_text,         \* the text of a second call of analyze_readability
    other_report,       \* the dict that second call returned
    calls,              \* the calls one caller made so far, with their results
    frames,             \* the local variables of each thread's running call
    difficulty,         \* difficulty_level argument of generate_passage
    response,           \* what the completion request of generate_passage gives
    passage_data,       \* the dict generate_passage returned
    passage_row,        \* the row of table passages inserted for it
    level_estimate,     \* users.level_estimate, in each of the two databases
    feedback            \* the feedback of the last submit_reading_feedback

\* the variables of a call of a function of src/readability.py
core == <<fn, text, user_level, target_challenge, pc, report, grade_range,
          count, other_text, other_report>>

\* the variables of the callers
app == <<calls, frames, difficulty, response, passage_data, passage_row,
         level_estimate, feedback>>

vars == <<fn, text, user_level, target_challenge, pc, report, grade_range,
          count, other_text, other_report, calls, frames, difficulty, response,
          passage_data, passage_row, level_estimate, feedback>>

(***************************************************************************)
(* Bounds of the model.                                                    *)
(***************************************************************************)
MaxLen == 3         \* every text of at most MaxLen characters is an input
MaxRepeat == 9      \* a short text may be followed by up to MaxRepeat units
MaxTokenLen == 4    \* longest argument of a call of a count_ function
MaxWords == 380     \* largest word count of a reading time estimate
MaxTwoSyllable == 4 \* most words of two syllables of a composed text
MaxOneSyllable == 5 \* most words of one syllable inside its first sentence
MaxSentences == 3   \* most one-word sentences that end a composed text
MaxCalls == 3       \* most calls one caller makes, one after the other
MaxPassageWords == 3 \* most words of two syllables of a generated passage
MaxFeedbacks == 3   \* most feedbacks one user submits

(***************************************************************************)
(* Characters.                                                             *)
(***************************************************************************)
\* a vowel, the letter e, a consonant, whitespace, a sentence delimiter and a
\* punctuation mark that is neither
Alphabet == {"a", "e", "b", " ", ".", ","}

\* the letters a to z and A to Z, in order
LowercaseLetters ==
    <<"a", "b", "c", "d", "e", "f", "g", "h", "i", "j", "k", "l", "m",
      "n", "o", "p", "q", "r", "s", "t", "u", "v", "w", "x", "y", "z">>

UppercaseLetters ==
    <<"A", "B", "C", "D", "E", "F", "G", "H", "I", "J", "K", "L", "M",
      "N", "O", "P", "Q", "R", "S", "T", "U", "V", "W", "X", "Y", "Z">>

\* the capital letters, as a set
Uppercase == {UppercaseLetters[i] : i \in 1..Len(UppercaseLetters)}

\* str.lower on one character
LowerChar(c) ==
    IF c \in Uppercase
    THEN LowercaseLetters[CHOOSE i \in 1..Len(UppercaseLetters) :
                              UppercaseLetters[i] = c]
    ELSE c

\* str.lower
RECURSIVE Lower(_)
Lower(s) == IF s = <<>> THEN <<>> ELSE <<LowerChar(Head(s))>> \o Lower(Tail(s))

\* the characters of the regular expression class \w: letters, digits and
\* the underscore
WordChars ==
    {LowercaseLetters[i] : i \in 1..Len(LowercaseLetters)}
        \cup Uppercase
        \cup {"0", "1", "2", "3", "4", "5", "6", "7", "8", "9", "_"}

IsWordChar(c) == c \in WordChars

\* the regular expression class [.!?]
IsSentenceEnd(c) == c \in {".", "!", "?"}

\* the characters str.strip removes
IsSpace(c) == c \in {" ", "\t", "\n"}

(***************************************************************************)
(* Exact fractions standing for the code's floats.                         *)
(***************************************************************************)
Frac(n, d) == [n |-> n, d |-> d]

\* a / b of the code; a fraction with denominator 0 is a ZeroDivisionError
Divide(a, b) == Frac(a, b)
Raised(x) == x.d = 0

FracLeq(x, y) == x.n * y.d <= y.n * x.d
FracLess(x, y) == x.n * y.d < y.n * x.d
FracMax(x, y) == IF FracLess(x, y) THEN y ELSE x
FracMin(x, y) == IF FracLess(y, x) THEN y ELSE x

\* int(n / d) for n >= 0: the fraction is cut off
RoundDown(n, d) == n \div d

\* round(n / d) of Python 3: to the nearest integer, a tie to the even one
RoundHalfEven(n, d) ==
    LET q == n \div d
        r == n % d
    IN  IF 2 * r < d THEN q
        ELSE IF 2 * r > d THEN q + 1
        ELSE IF q % 2 = 0 THEN q ELSE q + 1

\* round(x, 1) and round(x, 2): scale is 10 or 100.  The exact value is
\* rounded; where it lies exactly halfway between two decimals the float of the
\* code lies to one side of it and the code may return the other decimal.
RoundTo(x, scale) == Frac(RoundHalfEven(x.n * scale, x.d), scale)

(***************************************************************************)
(* Text metrics.                                                            *)
(***************************************************************************)
RECURSIVE SyllableScan(_, _, _)
SyllableScan(word, syllable_count, previous_was_vowel) ==
    IF word = <<>> THEN syllable_count
    ELSE LET is_vowel == Head(word) \in {"a", "e", "i", "o", "u", "y"}
         IN  SyllableScan(Tail(word),
                          IF is_vowel /\ ~previous_was_vowel
                          THEN syllable_count + 1 ELSE syllable_count,
                          is_vowel)

EndsWithE(word) == word # <<>> /\ word[Len(word)] = "e"

\* count_syllables without its floor of one syllable
count_syllables_nofloor(w) ==
    LET word == Lower(w)
        scanned == SyllableScan(word, 0, FALSE)
    IN  IF EndsWithE(word) THEN scanned - 1 ELSE scanned

\* count_syllables without word.lower()
count_syllables_nolower(w) ==
    LET scanned == SyllableScan(w, 0, FALSE)
        adjusted == IF EndsWithE(w) THEN scanned - 1 ELSE scanned
    IN  IF adjusted = 0 THEN 1 ELSE adjusted

count_syllables(w) ==
    LET word == Lower(w)
        scanned == SyllableScan(word, 0, FALSE)
        adjusted == IF EndsWithE(word) THEN scanned - 1 ELSE scanned
    IN  IF adjusted = 0 THEN 1 ELSE adjusted

\* re.split(r'[.!?]+', text): the pieces between maximal runs of delimiters,
\* the empty pieces before a leading and after a trailing run included
\* the scan after one more character c: pos is the number of characters
\* read, cur the piece being read, acc the pieces closed so far, in_run
\* whether the last character was a delimiter
SplitStep(state, c) ==
    IF IsSentenceEnd(c)
    THEN IF state.in_run THEN [state EXCEPT !.pos = state.pos + 1]
         ELSE [pos |-> state.pos + 1, cur |-> <<>>,
               acc |-> Append(state.acc, state.cur), in_run |-> TRUE]
    ELSE [pos |-> state.pos + 1, cur |-> Append(state.cur, c),
          acc |-> state.acc, in_run |-> FALSE]

\* the scan of t from state, left to right, up to character hi: first up to
\* the middle of what is left, then on from there
RECURSIVE SplitScan(_, _, _)
SplitScan(t, hi, state) ==
    IF state.pos >= hi THEN state
    ELSE IF state.pos + 1 = hi THEN SplitStep(state, t[hi])
    ELSE SplitScan(t, hi, SplitScan(t, (state.pos + hi) \div 2, state))

SplitSentences(t) ==
    LET end == SplitScan(t, Len(t),
                         [pos |-> 0, cur |-> <<>>, acc |-> <<>>, in_run |-> FALSE])
    IN  Append(end.acc, end.cur)

RECURSIVE LStrip(_)
LStrip(s) == IF s # <<>> /\ IsSpace(Head(s)) THEN LStrip(Tail(s)) ELSE s

RECURSIVE RStrip(_)
RStrip(s) ==
    IF s # <<>> /\ IsSpace(s[Len(s)]) THEN RStrip(SubSeq(s, 1, Len(s) - 1)) ELSE s

\* str.strip
Strip(s) == RStrip(LStrip(s))

Max(a, b) == IF a >= b THEN a ELSE b

\* count_sentences without its floor of one sentence
count_sentences_unfloored(t) ==
    Len(SelectSeq(SplitSentences(t), LAMBDA s : Strip(s) # <<>>))

\* count_sentences whose filter keeps every non-empty segment, blank or not
count_sentences_nostrip(t) ==
    Max(Len(SelectSeq(SplitSentences(t), LAMBDA s : s # <<>>)), 1)

count_sentences(t) ==
    Max(Len(SelectSeq(SplitSentences(t), LAMBDA s : Strip(s) # <<>>)), 1)

\* re.findall(r'\b\w+\b', text): the maximal runs of \w characters
\* the scan after one more character c: pos is the number of characters
\* read, cur the run of \w characters being read, acc the words matched so far
FindWordsStep(state, c) ==
    IF IsWordChar(c)
    THEN [pos |-> state.pos + 1, cur |-> Append(state.cur, c), acc |-> state.acc]
    ELSE [pos |-> state.pos + 1, cur |-> <<>>,
          acc |-> IF state.cur = <<>> THEN state.acc
                  ELSE Append(state.acc, state.cur)]

\* the scan of t from state, left to right, up to character hi: first up to
\* the middle of what is left, then on from there
RECURSIVE FindWordsScan(_, _, _)
FindWordsScan(t, hi, state) ==
    IF state.pos >= hi THEN state
    ELSE IF state.pos + 1 = hi THEN FindWordsStep(state, t[hi])
    ELSE FindWordsScan(t, hi, FindWordsScan(t, (state.pos + hi) \div 2, state))

FindWords(t) ==
    LET end == FindWordsScan(t, Len(t), [pos |-> 0, cur |-> <<>>, acc |-> <<>>])
    IN  IF end.cur = <<>> THEN end.acc ELSE Append(end.acc, end.cur)

\* count_words by len(text.split()): the maximal runs of non-whitespace
count_words_whitespace(t) ==
    Cardinality({i \in 1..Len(t) :
                    ~IsSpace(t[i]) /\ (i = 1 \/ IsSpace(t[i - 1]))})

count_words(t) == Len(FindWords(t))

\* sum(count_syllables(word) for word in words)
RECURSIVE SumSyllables(_)
SumSyllables(words) ==
    IF words = <<>> THEN 0
    ELSE count_syllables(Head(words)) + SumSyllables(Tail(words))

(***************************************************************************)
(* Readability scores.  A result with denominator 0 stands for the         *)
(* ZeroDivisionError that the division raises.                             *)
(***************************************************************************)
\* 206.835 - 1.015 * avg_words_per_sentence - 84.6 * avg_syllables_per_word
\* over the common denominator 1000 * sentence_count * word_count
EaseScore(avg_words_per_sentence, avg_syllables_per_word) ==
    Frac(206835 * avg_words_per_sentence.d * avg_syllables_per_word.d
           - 1015 * avg_words_per_sentence.n * avg_syllables_per_word.d
           - 84600 * avg_syllables_per_word.n * avg_words_per_sentence.d,
         1000 * avg_words_per_sentence.d * avg_syllables_per_word.d)

\* the grade with sentences per word in place of words per sentence
GradeScore_inverted(avg_words_per_sentence, avg_syllables_per_word) ==
    Frac(39 * avg_words_per_sentence.d * avg_syllables_per_word.d
           + 1180 * avg_syllables_per_word.n * avg_words_per_sentence.n
           - 1559 * avg_words_per_sentence.n * avg_syllables_per_word.d,
         100 * avg_words_per_sentence.n * avg_syllables_per_word.d)

\* 0.39 * avg_words_per_sentence + 11.8 * avg_syllables_per_word - 15.59
\* over the common denominator 100 * sentence_count * word_count
GradeScore(avg_words_per_sentence, avg_syllables_per_word) ==
    Frac(39 * avg_words_per_sentence.n * avg_syllables_per_word.d
           + 1180 * avg_syllables_per_word.n * avg_words_per_sentence.d
           - 1559 * avg_words_per_sentence.d * avg_syllables_per_word.d,
         100 * avg_words_per_sentence.d * avg_syllables_per_word.d)

\* flesch_reading_ease without the clamp to [0, 100]
flesch_reading_ease_unclamped(t) ==
    LET words == FindWords(t)
        word_count == Len(words)
        sentence_count == count_sentences(t)
        syllable_count == SumSyllables(words)
    IN  IF word_count = 0 \/ sentence_count = 0 THEN Frac(0, 1)
        ELSE EaseScore(Divide(word_count, sentence_count),
                       Divide(syllable_count, word_count))

flesch_reading_ease(t) ==
    LET words == FindWords(t)
        word_count == Len(words)
        sentence_count == count_sentences(t)
        syllable_count == SumSyllables(words)
    IN  IF word_count = 0 \/ sentence_count = 0 THEN Frac(0, 1)
        ELSE LET avg_syllables_per_word == Divide(syllable_count, word_count)
                 avg_words_per_sentence == Divide(word_count, sentence_count)
                 score == EaseScore(avg_words_per_sentence, avg_syllables_per_word)
             IN  IF Raised(score) THEN score
                 ELSE FracMax(Frac(0, 1), FracMin(Frac(100, 1), score))

\* flesch_kincaid_grade without the early return for a text without words
flesch_kincaid_grade_unguarded(t) ==
    LET words == FindWords(t)
        word_count == Len(words)
        sentence_count == count_sentences(t)
        syllable_count == SumSyllables(words)
        grade == GradeScore(Divide(word_count, sentence_count),
                            Divide(syllable_count, word_count))
    IN  IF Raised(grade) THEN grade ELSE FracMax(Frac(0, 1), grade)

\* flesch_kincaid_grade with an upper clamp at grade 12
flesch_kincaid_grade_capped(t) ==
    LET words == FindWords(t)
        word_count == Len(words)
        sentence_count == count_sentences(t)
        syllable_count == SumSyllables(words)
    IN  IF word_count = 0 \/ sentence_count = 0 THEN Frac(0, 1)
        ELSE FracMax(Frac(0, 1),
                     FracMin(Frac(12, 1),
                             GradeScore(Divide(word_count, sentence_count),
                                        Divide(syllable_count, word_count))))

flesch_kincaid_grade(t) ==
    LET words == FindWords(t)
        word_count == Len(words)
        sentence_count == count_sentences(t)
        syllable_count == SumSyllables(words)
    IN  IF word_count = 0 \/ sentence_count = 0 THEN Frac(0, 1)
        ELSE LET avg_syllables_per_word == Divide(syllable_count, word_count)
                 avg_words_per_sentence == Divide(word_count, sentence_count)
                 grade == GradeScore(avg_words_per_sentence, avg_syllables_per_word)
             IN  IF Raised(grade) THEN grade
                 ELSE FracMax(Frac(0, 1), grade)

get_readability_description(flesch_ease) ==
    IF FracLeq(Frac(90, 1), flesch_ease) THEN "Very Easy - 5th grade level"
    ELSE IF FracLeq(Frac(80, 1), flesch_ease) THEN "Easy - 6th grade level"
    ELSE IF FracLeq(Frac(70, 1), flesch_ease) THEN "Fairly Easy - 7th grade level"
    ELSE IF FracLeq(Frac(60, 1), flesch_ease) THEN "Standard - 8th-9th grade level"
    ELSE IF FracLeq(Frac(50, 1), flesch_ease)
         THEN "Fairly Difficult - 10th-12th grade level"
    ELSE IF FracLeq(Frac(30, 1), flesch_ease) THEN "Difficult - College level"
    ELSE "Very Difficult - Graduate level"

\* the difficulty chain with its first threshold at 6
DifficultyOf_shifted(fk_grade) ==
    IF FracLeq(fk_grade, Frac(6, 1)) THEN "beginner"
    ELSE IF FracLeq(fk_grade, Frac(8, 1)) THEN "intermediate"
    ELSE "advanced"

\* the if/elif chain that sets difficulty
DifficultyOf(fk_grade) ==
    IF FracLeq(fk_grade, Frac(5, 1)) THEN "beginner"
    ELSE IF FracLeq(fk_grade, Frac(8, 1)) THEN "intermediate"
    ELSE "advanced"

\* the grade band chain without its last branch
GradeBandOf_noadult(fk_grade) ==
    IF FracLeq(fk_grade, Frac(5, 1)) THEN "elementary"
    ELSE IF FracLeq(fk_grade, Frac(8, 1)) THEN "middle"
    ELSE "high"

\* the if/elif chain that sets grade_band
GradeBandOf(fk_grade) ==
    IF FracLeq(fk_grade, Frac(5, 1)) THEN "elementary"
    ELSE IF FracLeq(fk_grade, Frac(8, 1)) THEN "middle"
    ELSE IF FracLeq(fk_grade, Frac(12, 1)) THEN "high"
    ELSE "adult"

\* max(1, round(word_count / 150))
EstimatedMinutes(word_count) == Max(1, RoundHalfEven(word_count, 150))

\* what report holds while no dict was returned
NoReport ==
    [word_count |-> 0, sentence_count |-> 0, syllable_count |-> 0,
     avg_words_per_sentence |-> Frac(0, 1), avg_syllables_per_word |-> Frac(0, 1),
     flesch_reading_ease |-> Frac(0, 1), flesch_kincaid_grade |-> Frac(0, 1),
     difficulty_level |-> "", grade_band |-> "", estimated_minutes |-> 0,
     readability_description |-> ""]

\* the outcome of analyze_readability(t): the exception it raises, if any, and
\* the dict it returns otherwise
analyze_readability(t) ==
    LET word_count == count_words(t)
        sentence_count == count_sentences(t)
        words == FindWords(t)
        syllable_count == SumSyllables(words)
        flesch_ease == flesch_reading_ease(t)
        fk_grade == flesch_kincaid_grade(t)
        estimated_minutes == EstimatedMinutes(word_count)
        avg_wps == IF sentence_count > 0
                   THEN Divide(word_count, sentence_count) ELSE Frac(0, 1)
        avg_spw == IF word_count > 0
                   THEN Divide(syllable_count, word_count) ELSE Frac(0, 1)
    IN  IF Raised(flesch_ease) \/ Raised(fk_grade) \/ Raised(avg_wps) \/ Raised(avg_spw)
        THEN [raised |-> "ZeroDivisionError", value |-> NoReport]
        ELSE [raised |-> "",
              value |->
                [word_count |-> word_count,
                 sentence_count |-> sentence_count,
                 syllable_count |-> syllable_count,
                 avg_words_per_sentence |-> RoundTo(avg_wps, 10),
                 avg_syllables_per_word |-> RoundTo(avg_spw, 100),
                 flesch_reading_ease |-> RoundTo(flesch_ease, 10),
                 flesch_kincaid_grade |-> RoundTo(fk_grade, 10),
                 difficulty_level |-> DifficultyOf(fk_grade),
                 grade_band |-> GradeBandOf(fk_grade),
                 estimated_minutes |-> estimated_minutes,
                 readability_description |-> get_readability_description(flesch_ease)]]

(***************************************************************************)
(* Difficulty calibration.                                                 *)
(***************************************************************************)
\* base_ranges without its entry for advanced
BaseRange_noadvanced(user) ==
    CASE user = "beginner" -> <<2, 5>>
      [] user = "intermediate" -> <<6, 8>>
      [] OTHER -> <<6, 8>>

\* base_ranges.get with the beginner range as its default
BaseRange_defaultbeginner(user) ==
    CASE user = "beginner" -> <<2, 5>>
      [] user = "intermediate" -> <<6, 8>>
      [] user = "advanced" -> <<9, 12>>
      [] OTHER -> <<2, 5>>

\* base_ranges.get(user_level, (6, 8))
BaseRange(user) ==
    CASE user = "beginner" -> <<2, 5>>
      [] user = "intermediate" -> <<6, 8>>
      [] user = "advanced" -> <<9, 12>>
      [] OTHER -> <<6, 8>>

\* get_difficulty_for_user whose easier branch only subtracts 2
get_difficulty_for_user_unfloored(user, challenge) ==
    LET base == BaseRange(user)
        min_grade == base[1]
        max_grade == base[2]
    IN  IF challenge = "easier"
        THEN <<min_grade - 2, max_grade - 2>>
        ELSE IF challenge = "challenging"
        THEN <<min_grade + 2, max_grade + 2>>
        ELSE <<min_grade, max_grade>>

\* get_difficulty_for_user whose challenging branch stops at grade 12
get_difficulty_for_user_capped(user, challenge) ==
    LET base == BaseRange(user)
        min_grade == base[1]
        max_grade == base[2]
    IN  IF challenge = "easier"
        THEN <<Max(1, min_grade - 2), Max(3, max_grade - 2)>>
        ELSE IF challenge = "challenging"
        THEN <<min_grade + 2, IF max_grade + 2 > 12 THEN 12 ELSE max_grade + 2>>
        ELSE <<min_grade, max_grade>>

\* get_difficulty_for_user with a plain else in place of the elif
get_difficulty_for_user_else(user, challenge) ==
    LET base == BaseRange(user)
        min_grade == base[1]
        max_grade == base[2]
    IN  IF challenge = "easier"
        THEN <<Max(1, min_grade - 2), Max(3, max_grade - 2)>>
        ELSE <<min_grade + 2, max_grade + 2>>

\* get_difficulty_for_user whose base_ranges is a module-level dict and whose
\* adjusted range is written back into it: a later call for the same tier
\* starts from the range the last call returned
get_difficulty_for_user_writeback(user, challenge) ==
    LET earlier == {i \in DOMAIN calls :
                       /\ calls[i].fn = "get_difficulty_for_user"
                       /\ calls[i].user_level = user}
        last == CHOOSE i \in earlier : \A j \in earlier : j <= i
        base == IF earlier = {} THEN BaseRange(user) ELSE calls[last].grade_range
        min_grade == base[1]
        max_grade == base[2]
    IN  IF challenge = "easier"
        THEN <<Max(1, min_grade - 2), Max(3, max_grade - 2)>>
        ELSE IF challenge = "challenging"
        THEN <<min_grade + 2, max_grade + 2>>
        ELSE <<min_grade, max_grade>>

get_difficulty_for_user(user, challenge) ==
    LET base == BaseRange(user)
        min_grade == base[1]
        max_grade == base[2]
    IN  IF challenge = "easier"
        THEN <<Max(1, min_grade - 2), Max(3, max_grade - 2)>>
        ELSE IF challenge = "challenging"
        THEN <<min_grade + 2, max_grade + 2>>
        ELSE <<min_grade, max_grade>>

(***************************************************************************)
(* Inputs.                                                                 *)
(***************************************************************************)
\* every text of at most MaxLen characters
ShortTexts == UNION {[1..n -> Alphabet] : n \in 0..MaxLen}

\* ways a text grows: a longer word, one more word of one syllable, one more
\* word of two syllables, one more sentence segment that holds no word
Units == {<<"a", "b">>, <<" ", "a">>, <<" ", "a", "b", "a">>, <<".", ",">>}

RECURSIVE Repeat(_, _)
Repeat(u, n) == IF n = 0 THEN <<>> ELSE u \o Repeat(u, n - 1)

\* the texts analysed: a short text followed by up to MaxRepeat copies of a unit
Texts == {h \o Repeat(u, n) : h \in ShortTexts, u \in Units, n \in 0..MaxRepeat}

\* tier arguments: the three tiers, and strings that are none of them
\* ("None" stands for the value None)
UserLevels ==
    {"beginner", "intermediate", "advanced", "Beginner", "expert", "", "None"}

\* adjustment arguments: the three adjustments, and strings that are none of them
Challenges == {"easier", "appropriate", "challenging", "Easier", "harder", ""}

(***************************************************************************)
(* The state machine: one call of one of the two public functions.         *)
(***************************************************************************)
NoRange == <<0, 0>>

\* the callers have done nothing
NoPassage == [source |-> ""]
NoRow == [approved |-> FALSE]
AppIdle ==
    /\ calls = <<>>
    /\ frames = <<>>
    /\ difficulty = ""
    /\ response = [kind |-> ""]
    /\ passage_data = NoPassage
    /\ passage_row = NoRow
    /\ level_estimate = [postgres |-> "None", sqlite |-> "None"]
    /\ feedback = ""

\* nothing was returned yet
NothingReturned ==
    /\ pc = "call"
    /\ report = NoReport
    /\ grade_range = NoRange
    /\ count = 0
    /\ other_report = NoReport

Init ==
    /\ AppIdle
    /\ NothingReturned
    /\ other_text = <<>>
    /\ \/ /\ fn = "analyze_readability"
          /\ text \in Texts
          /\ user_level = ""
          /\ target_challenge = ""
       \/ /\ fn = "get_difficulty_for_user"
          /\ text = <<>>
          /\ user_level \in UserLevels
          /\ target_challenge \in Challenges

AnalyzeReadability ==
    /\ pc = "call"
    /\ fn = "analyze_readability"
    /\ LET outcome == analyze_readability(text)
       IN  /\ report' = outcome.value
           /\ pc' = IF outcome.raised = "" THEN "return" ELSE "raise"
    /\ UNCHANGED <<fn, text, user_level, target_challenge, grade_range, count,
                   other_text, other_report>>
    /\ UNCHANGED app

GetDifficultyForUser ==
    /\ pc = "call"
    /\ fn = "get_difficulty_for_user"
    /\ grade_range' = get_difficulty_for_user(user_level, target_challenge)
    /\ pc' = "return"
    /\ UNCHANGED <<fn, text, user_level, target_challenge, report, count,
                   other_text, other_report>>
    /\ UNCHANGED app

Next == AnalyzeReadability \/ GetDifficultyForUser

Spec == Init /\ [][Next]_vars

(***************************************************************************)
(* The state machine of one call of a count_ function.                     *)
(***************************************************************************)
Strings(chars, n) == UNION {[1..k -> chars] : k \in 0..n}

\* words: vowels, the letter e, y, a consonant, capitals, a digit, underscore
SyllableChars == {"a", "e", "y", "b", "A", "E", "1", "_"}

\* texts: a letter, the whitespace strip removes, the three delimiters
SentenceChars == {"a", " ", "\n", ".", "!", "?"}

\* texts: letters in both cases, a digit, underscore, whitespace, punctuation
TokenChars == {"a", "E", "1", "_", " ", ".", "'"}

InitCounts ==
    /\ AppIdle
    /\ NothingReturned
    /\ other_text = <<>>
    /\ user_level = ""
    /\ target_challenge = ""
    /\ \/ /\ fn = "count_syllables"
          /\ text \in Strings(SyllableChars, MaxTokenLen)
       \/ /\ fn = "count_sentences"
          /\ text \in Strings(SentenceChars, MaxTokenLen)
       \/ /\ fn = "count_words"
          /\ text \in Strings(TokenChars, MaxTokenLen)

CountSyllables ==
    /\ pc = "call"
    /\ fn = "count_syllables"
    /\ count' = count_syllables(text)
    /\ pc' = "return"
    /\ UNCHANGED <<fn, text, user_level, target_challenge, report, grade_range,
                   other_text, other_report>>
    /\ UNCHANGED app

CountSentences ==
    /\ pc = "call"
    /\ fn = "count_sentences"
    /\ count' = count_sentences(text)
    /\ pc' = "return"
    /\ UNCHANGED <<fn, text, user_level, target_challenge, report, grade_range,
                   other_text, other_report>>
    /\ UNCHANGED app

CountWords ==
    /\ pc = "call"
    /\ fn = "count_words"
    /\ count' = count_words(text)
    /\ pc' = "return"
    /\ UNCHANGED <<fn, text, user_level, target_challenge, report, grade_range,
                   other_text, other_report>>
    /\ UNCHANGED app

NextCounts == CountSyllables \/ CountSentences \/ CountWords

SpecCounts == InitCounts /\ [][NextCounts]_vars

(***************************************************************************)
(* analyze_readability from the word count on: the reading time estimate.  *)
(* Every word count is the count of some text (that many one-letter        *)
(* words); count holds what count_words returned.                          *)
(***************************************************************************)
InitMinutes ==
    /\ AppIdle
    /\ fn = "analyze_readability"
    /\ pc = "counted"
    /\ count \in 0..MaxWords
    /\ text = <<>>
    /\ other_text = <<>>
    /\ user_level = ""
    /\ target_challenge = ""
    /\ report = NoReport
    /\ other_report = NoReport
    /\ grade_range = NoRange

EstimateMinutes ==
    /\ fn = "analyze_readability"
    /\ pc = "counted"
    /\ report' = [report EXCEPT !.word_count = count,
                                !.estimated_minutes = EstimatedMinutes(count)]
    /\ pc' = "estimated"
    /\ UNCHANGED <<fn, text, user_level, target_challenge, grade_range, count,
                   other_text, other_report>>
    /\ UNCHANGED app

NextMinutes == EstimateMinutes

SpecMinutes == InitMinutes /\ [][NextMinutes]_vars

(***************************************************************************)
(* The state machine of two calls of analyze_readability, one after the    *)
(* other, on two composed texts.                                           *)
(***************************************************************************)
\* k words of two syllables, m words of one syllable, then p one-word sentences
ComposedText(k, m, p) ==
    Repeat(<<"a", "b", "a", " ">>, k) \o Repeat(<<"a", " ">>, m)
        \o Repeat(<<"a", ".">>, p)

ComposedTexts ==
    {ComposedText(k, m, p) :
        k \in 0..MaxTwoSyllable, m \in 0..MaxOneSyllable, p \in 0..MaxSentences}

InitPairs ==
    /\ AppIdle
    /\ NothingReturned
    /\ fn = "analyze_readability"
    /\ text \in ComposedTexts
    /\ other_text \in ComposedTexts
    /\ user_level = ""
    /\ target_challenge = ""

AnalyzeOther ==
    /\ pc = "return"
    /\ fn = "analyze_readability"
    /\ LET outcome == analyze_readability(other_text)
       IN  /\ other_report' = outcome.value
           /\ pc' = IF outcome.raised = "" THEN "both" ELSE "raise"
    /\ UNCHANGED <<fn, text, user_level, target_challenge, report, grade_range,
                   count, other_text>>
    /\ UNCHANGED app

NextPairs == AnalyzeReadability \/ AnalyzeOther

SpecPairs == InitPairs /\ [][NextPairs]_vars

(***************************************************************************)
(* The state machine of one call of analyze_readability on the sample text *)
(* of the module's example run, or on a text that is the beginning of it.  *)
(***************************************************************************)
\* the sample on one line
SampleText ==
    <<"T", "h", "e", " ", "s", "u", "n", " ", "w", "a", "s", " ", "s", "h",
      "i", "n", "i", "n", "g", " ", "b", "r", "i", "g", "h", "t", "l", "y",
      " ", "i", "n", " ", "t", "h", "e", " ", "c", "l", "e", "a", "r", " ",
      "b", "l", "u", "e", " ", "s", "k", "y", ".", " ", "B", "i", "r", "d",
      "s", " ", "w", "e", "r", "e", " ", "s", "i", "n", "g", "i", "n", "g",
      " ", "i", "n", " ", "t", "h", "e", " ", "t", "r", "e", "e", "s", ".",
      " ", "I", "t", " ", "w", "a", "s", " ", "a", " ", "p", "e", "r", "f",
      "e", "c", "t", " ", "d", "a", "y", " ", "f", "o", "r", " ", "a", " ",
      "p", "i", "c", "n", "i", "c", " ", "i", "n", " ", "t", "h", "e", " ",
      "p", "a", "r", "k", ".">>

\* sample_text as the example run writes it: indented, on two lines
MainSampleText ==
    <<"\n", " ", " ", " ", " ", "T", "h", "e", " ", "s", "u", "n", " ",
      "w", "a", "s", " ", "s", "h", "i", "n", "i", "n", "g", " ", "b", "r",
      "i", "g", "h", "t", "l", "y", " ", "i", "n", " ", "t", "h", "e", " ",
      "c", "l", "e", "a", "r", " ", "b", "l", "u", "e", " ", "s", "k", "y",
      ".", " ", "B", "i", "r", "d", "s", " ", "w", "e", "r", "e", " ", "s",
      "i", "n", "g", "i", "n", "g", " ", "i", "n", " ", "t", "h", "e", " ",
      "t", "r", "e", "e", "s", ".", "\n", " ", " ", " ", " ", "I", "t",
      " ", "w", "a", "s", " ", "a", " ", "p", "e", "r", "f", "e", "c", "t",
      " ", "d", "a", "y", " ", "f", "o", "r", " ", "a", " ", "p", "i", "c",
      "n", "i", "c", " ", "i", "n", " ", "t", "h", "e", " ", "p", "a", "r",
      "k", ".", "\n", " ", " ", " ", " ">>

Prefixes(t) == {SubSeq(t, 1, n) : n \in 0..Len(t)}

SampleTexts == Prefixes(SampleText) \cup Prefixes(MainSampleText)

InitSample ==
    /\ AppIdle
    /\ NothingReturned
    /\ fn = "analyze_readability"
    /\ text \in SampleTexts
    /\ other_text = <<>>
    /\ user_level = ""
    /\ target_challenge = ""

NextSample == AnalyzeReadability

SpecSample == InitSample /\ [][NextSample]_vars

(***************************************************************************)
(* The state machine of one caller that calls the two functions several    *)
(* times, one call after the other; calls records each call and its result.*)
(***************************************************************************)
CoreIdle ==
    /\ NothingReturned
    /\ fn = ""
    /\ text = <<>>
    /\ other_text = <<>>
    /\ user_level = ""
    /\ target_challenge = ""

\* the texts and the tier and adjustment arguments of the calls
CallTexts == {ComposedText(k, m, 1) : k \in 0..1, m \in 0..1}
CallLevels == {"beginner", "advanced"}
CallChallenges == {"easier", "appropriate", "challenging"}

InitCalls ==
    /\ CoreIdle
    /\ AppIdle

CallAnalyzeReadability ==
    /\ Len(calls) < MaxCalls
    /\ \E t \in CallTexts :
          LET outcome == analyze_readability(t)
          IN  calls' = Append(calls,
                  [fn |-> "analyze_readability", text |-> t,
                   user_level |-> "", target_challenge |-> "",
                   raised |-> outcome.raised, report |-> outcome.value,
                   grade_range |-> NoRange])
    /\ UNCHANGED core
    /\ UNCHANGED <<frames, difficulty, response, passage_data, passage_row,
                   level_estimate, feedback>>

CallGetDifficultyForUser ==
    /\ Len(calls) < MaxCalls
    /\ \E u \in CallLevels, c \in CallChallenges :
          calls' = Append(calls,
              [fn |-> "get_difficulty_for_user", text |-> <<>>,
               user_level |-> u, target_challenge |-> c,
               raised |-> "", report |-> NoReport,
               grade_range |-> get_difficulty_for_user(u, c)])
    /\ UNCHANGED core
    /\ UNCHANGED <<frames, difficulty, response, passage_data, passage_row,
                   level_estimate, feedback>>

NextCalls == CallAnalyzeReadability \/ CallGetDifficultyForUser

SpecCalls == InitCalls /\ [][NextCalls]_vars

(***************************************************************************)
(* The state machine of two threads, each in one call of one of the two    *)
(* functions, their statements interleaved.  frames[self] holds the        *)
(* arguments, the local variables and the control position of the call of  *)
(* thread self.                                                            *)
(***************************************************************************)
Threads == {1, 2}

\* the local variables of a call before its first statement
NoLocals ==
    [word_count |-> 0, sentence_count |-> 0, syllable_count |-> 0,
     flesch_ease |-> Frac(0, 1), fk_grade |-> Frac(0, 1),
     estimated_minutes |-> 0, difficulty |-> "", grade_band |-> "",
     min_grade |-> 0, max_grade |-> 0]

\* the frame of a call that is about to run its first statement
NewFrame(f, t, u, c) ==
    [fn |-> f, text |-> t, user_level |-> u, target_challenge |-> c,
     pc |-> IF f = "analyze_readability" THEN "count" ELSE "base",
     locals |-> NoLocals, report |-> NoReport, grade_range |-> NoRange]

NewFrames ==
    {NewFrame("analyze_readability", t, "", "") : t \in CallTexts}
        \cup {NewFrame("get_difficulty_for_user", <<>>, u, c) :
                  u \in CallLevels, c \in CallChallenges}

\* where the statements of the call of thread self keep its local variables,
\* with a variant that keeps them in one place for all threads
Locals_shared(self) == frames[1].locals

Locals(self) == frames[self].locals

InitThreads ==
    /\ CoreIdle
    /\ calls = <<>>
    /\ difficulty = ""
    /\ response = [kind |-> ""]
    /\ passage_data = NoPassage
    /\ passage_row = NoRow
    /\ level_estimate = [postgres |-> "None", sqlite |-> "None"]
    /\ feedback = ""
    /\ frames \in [Threads -> NewFrames]

\* thread self is in function f at position p
At(self, f, p) == frames[self].fn = f /\ frames[self].pc = p

\* thread self runs one statement: frame is its frame after it
Store(self, frame) ==
    /\ frames' = [frames EXCEPT ![self] = frame]
    /\ UNCHANGED core
    /\ UNCHANGED <<calls, difficulty, response, passage_data, passage_row,
                   level_estimate, feedback>>

\* word_count = count_words(text); sentence_count = count_sentences(text)
CountStep(self) ==
    /\ At(self, "analyze_readability", "count")
    /\ Store(self, [frames[self] EXCEPT
           !.locals = [Locals(self) EXCEPT
                          !.word_count = count_words(frames[self].text),
                          !.sentence_count = count_sentences(frames[self].text)],
           !.pc = "syllables"])

\* words = re.findall(...); syllable_count = sum(...)
SyllablesStep(self) ==
    /\ At(self, "analyze_readability", "syllables")
    /\ Store(self, [frames[self] EXCEPT
           !.locals = [Locals(self) EXCEPT
                          !.syllable_count =
                              SumSyllables(FindWords(frames[self].text))],
           !.pc = "scores"])

\* flesch_ease = flesch_reading_ease(text); fk_grade = flesch_kincaid_grade(text)
ScoresStep(self) ==
    /\ At(self, "analyze_readability", "scores")
    /\ LET flesch_ease == flesch_reading_ease(frames[self].text)
           fk_grade == flesch_kincaid_grade(frames[self].text)
       IN  Store(self, [frames[self] EXCEPT
               !.locals = [Locals(self) EXCEPT !.flesch_ease = flesch_ease,
                                               !.fk_grade = fk_grade],
               !.pc = IF Raised(flesch_ease) \/ Raised(fk_grade)
                      THEN "raise" ELSE "classify"])

\* estimated_minutes, difficulty and grade_band
ClassifyStep(self) ==
    /\ At(self, "analyze_readability", "classify")
    /\ Store(self, [frames[self] EXCEPT
           !.locals = [Locals(self) EXCEPT
                          !.estimated_minutes =
                              EstimatedMinutes(Locals(self).word_count),
                          !.difficulty = DifficultyOf(Locals(self).fk_grade),
                          !.grade_band = GradeBandOf(Locals(self).fk_grade)],
           !.pc = "build"])

\* the dict of the return statement, from the local variables
ReportOf(l) ==
    [word_count |-> l.word_count,
     sentence_count |-> l.sentence_count,
     syllable_count |-> l.syllable_count,
     avg_words_per_sentence |->
         IF l.sentence_count > 0
         THEN RoundTo(Divide(l.word_count, l.sentence_count), 10) ELSE Frac(0, 10),
     avg_syllables_per_word |->
         IF l.word_count > 0
         THEN RoundTo(Divide(l.syllable_count, l.word_count), 100) ELSE Frac(0, 100),
     flesch_reading_ease |-> RoundTo(l.flesch_ease, 10),
     flesch_kincaid_grade |-> RoundTo(l.fk_grade, 10),
     difficulty_level |-> l.difficulty,
     grade_band |-> l.grade_band,
     estimated_minutes |-> l.estimated_minutes,
     readability_description |-> get_readability_description(l.flesch_ease)]

\* return {...}
ReturnReportStep(self) ==
    /\ At(self, "analyze_readability", "build")
    /\ Store(self, [frames[self] EXCEPT !.report = ReportOf(Locals(self)),
                                        !.pc = "return"])

\* min_grade, max_grade = base_ranges.get(user_level, (6, 8))
BaseStep(self) ==
    /\ At(self, "get_difficulty_for_user", "base")
    /\ LET base == BaseRange(frames[self].user_level)
       IN  Store(self, [frames[self] EXCEPT
               !.locals = [Locals(self) EXCEPT !.min_grade = base[1],
                                               !.max_grade = base[2]],
               !.pc = "adjust"])

\* the if and elif on target_challenge
AdjustStep(self) ==
    /\ At(self, "get_difficulty_for_user", "adjust")
    /\ LET l == Locals(self)
       IN  Store(self, [frames[self] EXCEPT
               !.locals =
                   IF frames[self].target_challenge = "easier"
                   THEN [l EXCEPT !.min_grade = Max(1, l.min_grade - 2),
                                  !.max_grade = Max(3, l.max_grade - 2)]
                   ELSE IF frames[self].target_challenge = "challenging"
                   THEN [l EXCEPT !.min_grade = l.min_grade + 2,
                                  !.max_grade = l.max_grade + 2]
                   ELSE l,
               !.pc = "build"])

\* return (min_grade, max_grade)
ReturnRangeStep(self) ==
    /\ At(self, "get_difficulty_for_user", "build")
    /\ Store(self, [frames[self] EXCEPT
           !.grade_range = <<Locals(self).min_grade, Locals(self).max_grade>>,
           !.pc = "return"])

NextThreads ==
    \E self \in Threads :
        \/ CountStep(self)
        \/ SyllablesStep(self)
        \/ ScoresStep(self)
        \/ ClassifyStep(self)
        \/ ReturnReportStep(self)
        \/ BaseStep(self)
        \/ AdjustStep(self)
        \/ ReturnRangeStep(self)

SpecThreads == InitThreads /\ [][NextThreads]_vars

(***************************************************************************)
(* Passage generation (ContentGenerator.generate_passage) and the insert   *)
(* of the generated passage into table passages (get_reading_sample).      *)
(* A value that came out of json.loads carries its JSON type.              *)
(***************************************************************************)
JsonString(t) == [type |-> "string", value |-> t]
JsonNull == [type |-> "null"]
JsonNumber(n) == [type |-> "number", value |-> n]

\* the topic argument, a string
Topic == "science"

\* d.get(key): None for a key the dict does not hold
Get(d, key) == IF key \in DOMAIN d THEN d[key] ELSE "None"

\* _get_fallback_passage(topic, difficulty)
FallbackPassage(topic, requested) ==
    [title |-> JsonString(<<"Introduction to ", topic>>),
     content |-> JsonString(<<"This is a beginner passage about ", topic,
                              ". [AI generation unavailable - please try again or contact administrator]">>),
     key_concepts |-> <<topic>>,
     vocabulary_words |-> <<>>,
     source |-> "AI",
     topic_tags |-> {topic},
     word_count |-> 50,
     difficulty_level |-> requested]

\* passage_data.update({...}): the keys update writes replace the keys the
\* parsed dict holds under the same names
Update(parsed, topic, requested, readability) ==
    [source |-> "AI",
     topic_tags |-> {topic},
     word_count |-> readability.word_count,
     readability_score |-> readability.flesch_kincaid_grade,
     flesch_ease |-> readability.flesch_reading_ease,
     difficulty_level |-> requested,
     estimated_minutes |-> readability.estimated_minutes,
     actual_difficulty |-> readability.difficulty_level,
     grade_band |-> readability.grade_band]
        @@ parsed

\* the statements after readability = analyze_readability(...)
AddMetadata(parsed, topic, requested, readability) ==
    IF readability.raised # ""
    THEN [raised |-> readability.raised, value |-> NoPassage]
    ELSE [raised |-> "",
          value |-> Update(parsed, topic, requested, readability.value)]

\* the statements inside try: the exception one of them raises, if any, and
\* the dict the return statement holds otherwise
GeneratePassageBody(topic, requested, completion) ==
    IF completion.kind = "error"
    THEN [raised |-> "APIError", value |-> NoPassage]
    ELSE IF completion.kind = "not_json"
    THEN [raised |-> "JSONDecodeError", value |-> NoPassage]
    ELSE IF completion.kind = "array"
    THEN [raised |-> "TypeError", value |-> NoPassage]
    ELSE IF "content" \notin DOMAIN completion.data
    THEN [raised |-> "KeyError", value |-> NoPassage]
    ELSE IF completion.data.content.type # "string"
    THEN [raised |-> "TypeError", value |-> NoPassage]
    ELSE AddMetadata(completion.data, topic, requested,
                     analyze_readability(completion.data.content.value))

\* the exceptions raised inside try that are instances of Exception
Exceptions ==
    {"APIError", "JSONDecodeError", "TypeError", "KeyError", "ZeroDivisionError"}

\* except Exception: return self._get_fallback_passage(topic, difficulty_level)
ExceptException(topic, requested, body) ==
    IF body.raised \in Exceptions
    THEN [raised |-> "", value |-> FallbackPassage(topic, requested)]
    ELSE body

\* generate_passage whose handler is except json.JSONDecodeError
generate_passage_narrow(topic, requested, completion) ==
    IF completion.kind = "not_json"
    THEN [raised |-> "", value |-> FallbackPassage(topic, requested)]
    ELSE GeneratePassageBody(topic, requested, completion)

\* generate_passage(topic, difficulty_level): try, and except Exception
generate_passage(topic, requested, completion) ==
    ExceptException(topic, requested,
                    GeneratePassageBody(topic, requested, completion))

\* the passage texts a completion may hold
PassageTexts == {ComposedText(k, 0, p) : k \in 0..MaxPassageWords, p \in 0..1}

\* the JSON objects a completion may hold: a passage with or without a title,
\* one with keys of its own for what generate_passage adds, one without
\* content, one whose content is null
JsonObjects ==
    {[title |-> JsonString(<<"T">>), content |-> JsonString(t)] : t \in PassageTexts}
        \cup {[content |-> JsonString(t)] : t \in PassageTexts}
        \cup {[title |-> JsonString(<<"T">>), content |-> JsonString(t),
               difficulty_level |-> JsonString(<<"e", "a", "s", "y">>),
               word_count |-> JsonNumber(200)] : t \in PassageTexts}
        \cup {[title |-> JsonString(<<"T">>)],
              [title |-> JsonString(<<"T">>), content |-> JsonNull]}

\* what openai.ChatCompletion.create and json.loads give: an exception of the
\* request, text that is not JSON, a JSON array, or a JSON object
Completions ==
    {[kind |-> "error"], [kind |-> "not_json"], [kind |-> "array"]}
        \cup {[kind |-> "object", data |-> o] : o \in JsonObjects}

\* difficulty_level arguments: the three tiers and a string that is none
RequestedDifficulties == {"beginner", "intermediate", "advanced", "expert"}

InitPassage ==
    /\ NothingReturned
    /\ fn = "get_reading_sample"
    /\ text = <<>>
    /\ other_text = <<>>
    /\ user_level = ""
    /\ target_challenge = ""
    /\ calls = <<>>
    /\ frames = <<>>
    /\ difficulty \in RequestedDifficulties
    /\ response \in Completions
    /\ passage_data = NoPassage
    /\ passage_row = NoRow
    /\ level_estimate = [postgres |-> "None", sqlite |-> "None"]
    /\ feedback = ""

\* passage_data = content_generator.generate_passage(...)
GeneratePassage ==
    /\ fn = "get_reading_sample"
    /\ pc = "call"
    /\ LET outcome == generate_passage(Topic, difficulty, response)
       IN  /\ passage_data' = outcome.value
           /\ pc' = IF outcome.raised = "" THEN "generated" ELSE "raise"
    /\ UNCHANGED <<fn, text, user_level, target_challenge, report, grade_range,
                   count, other_text, other_report>>
    /\ UNCHANGED <<calls, frames, difficulty, response, passage_row,
                   level_estimate, feedback>>

\* INSERT INTO passages (...): the same values in both databases; a dict
\* without title raises KeyError and no row is inserted
InsertPassage ==
    /\ fn = "get_reading_sample"
    /\ pc = "generated"
    /\ IF "title" \in DOMAIN passage_data
       THEN /\ passage_row' =
                   [title |-> passage_data.title,
                    content |-> passage_data.content,
                    source |-> passage_data.source,
                    topic_tags |-> passage_data.topic_tags,
                    word_count |-> passage_data.word_count,
                    readability_score |-> Get(passage_data, "readability_score"),
                    flesch_ease |-> Get(passage_data, "flesch_ease"),
                    difficulty_level |-> passage_data.difficulty_level,
                    estimated_minutes |-> Get(passage_data, "estimated_minutes"),
                    approved |-> TRUE,
                    created_by |-> 1]
            /\ pc' = "stored"
       ELSE /\ passage_row' = passage_row
            /\ pc' = "failed"
    /\ UNCHANGED <<fn, text, user_level, target_challenge, report, grade_range,
                   count, other_text, other_report>>
    /\ UNCHANGED <<calls, frames, difficulty, response, passage_data,
                   level_estimate, feedback>>

NextPassage == GeneratePassage \/ InsertPassage

SpecPassage == InitPassage /\ [][NextPassage]_vars

(***************************************************************************)
(* Reading feedback (submit_reading_feedback): the adjustment of           *)
(* users.level_estimate, by the PostgreSQL branch in one database and by   *)
(* the SQLite branch in the other, for the same user and the same          *)
(* feedbacks.  "None" stands for NULL and for None.                        *)
(***************************************************************************)
\* UPDATE users SET level_estimate = CASE ... END with a jump from beginner
\* to advanced
PostgresLevelAfter_jump(current, given) ==
    IF given = "too_easy"
    THEN CASE current # "None" /\ current = "beginner" -> "advanced"
           [] current # "None" /\ current = "intermediate" -> "advanced"
           [] OTHER -> current
    ELSE IF given = "too_hard"
    THEN CASE current # "None" /\ current = "advanced" -> "intermediate"
           [] current # "None" /\ current = "intermediate" -> "beginner"
           [] OTHER -> current
    ELSE current

\* the PostgreSQL branch: UPDATE users SET level_estimate = CASE ... END; a
\* comparison of NULL is not true, so NULL takes the ELSE
PostgresLevelAfter(current, given) ==
    IF given = "too_easy"
    THEN CASE current # "None" /\ current = "beginner" -> "intermediate"
           [] current # "None" /\ current = "intermediate" -> "advanced"
           [] OTHER -> current
    ELSE IF given = "too_hard"
    THEN CASE current # "None" /\ current = "advanced" -> "intermediate"
           [] current # "None" /\ current = "intermediate" -> "beginner"
           [] OTHER -> current
    ELSE current

\* the SQLite branch reading a missing level as intermediate
SqliteLevelAfter_default(current_level, given) ==
    LET level == IF current_level = "None" THEN "intermediate" ELSE current_level
    IN  IF given = "too_easy"
        THEN IF level = "beginner" THEN "intermediate"
             ELSE IF level = "intermediate" THEN "advanced"
             ELSE level
        ELSE IF given = "too_hard"
        THEN IF level = "intermediate" THEN "beginner"
             ELSE IF level = "advanced" THEN "intermediate"
             ELSE level
        ELSE current_level

\* the SQLite branch: SELECT level_estimate, the conditional expression, UPDATE
SqliteLevelAfter(current_level, given) ==
    IF given = "too_easy"
    THEN IF current_level = "beginner" THEN "intermediate"
         ELSE IF current_level = "intermediate" THEN "advanced"
         ELSE current_level
    ELSE IF given = "too_hard"
    THEN IF current_level = "intermediate" THEN "beginner"
         ELSE IF current_level = "advanced" THEN "intermediate"
         ELSE current_level
    ELSE current_level

\* values of users.level_estimate: the three tiers, a string that is none of
\* them, and NULL
LevelEstimates == {"beginner", "intermediate", "advanced", "expert", "None"}

\* values of the feedback field of a request: the three the client sends, a
\* string that is none of them, and a missing field
Feedbacks == {"too_easy", "just_right", "too_hard", "TOO_EASY", "None"}

InitFeedback ==
    /\ NothingReturned
    /\ fn = "submit_reading_feedback"
    /\ text = <<>>
    /\ other_text = <<>>
    /\ user_level = ""
    /\ target_challenge = ""
    /\ calls = <<>>
    /\ frames = <<>>
    /\ difficulty = ""
    /\ response = [kind |-> ""]
    /\ passage_data = NoPassage
    /\ passage_row = NoRow
    /\ \E l \in LevelEstimates : level_estimate = [postgres |-> l, sqlite |-> l]
    /\ feedback = ""

\* one request of the user, handled by each of the two branches on its
\* database; calls records the feedback and level_estimate before and after
SubmitReadingFeedback ==
    /\ fn = "submit_reading_feedback"
    /\ Len(calls) < MaxFeedbacks
    /\ \E given \in Feedbacks :
          /\ feedback' = given
          /\ level_estimate' =
                 [postgres |-> PostgresLevelAfter(level_estimate.postgres, given),
                  sqlite |-> SqliteLevelAfter(level_estimate.sqlite, given)]
          /\ calls' = Append(calls,
                 [fn |-> "submit_reading_feedback", feedback |-> given,
                  before |-> level_estimate, after |-> level_estimate'])
    /\ UNCHANGED core
    /\ UNCHANGED <<frames, difficulty, response, passage_data, passage_row>>

NextFeedback == SubmitReadingFeedback

SpecFeedback == InitFeedback /\ [][NextFeedback]_vars

(***************************************************************************)
(* Properties.                                                             *)
(***************************************************************************)
Returned == fn = "analyze_readability" /\ pc = "return"
Calibrated == fn = "get_difficulty_for_user" /\ pc = "return"

\* C1: every report has sentence_count >= 1, and when word_count > 0 its
\* syllable_count is at least its word_count.
C1_CountFloors ==
    Returned =>
        /\ report.sentence_count >= 1
        /\ report.word_count > 0 => report.syllable_count >= report.word_count

\* the words "e" and "b" each scan to 0 syllables and are floored to 1
C1_Witness ==
    /\ Returned
    /\ text = <<"e", " ", "b">>
    /\ report.word_count = 2
    /\ report.syllable_count = 2
    /\ report.sentence_count = 1

\* C2: the reading ease lies in [0, 100] and the grade is >= 0, both as the
\* functions return them and as the report lists them.
C2_Clamped ==
    Returned =>
        /\ FracLeq(Frac(0, 1), flesch_reading_ease(text))
        /\ FracLeq(flesch_reading_ease(text), Frac(100, 1))
        /\ FracLeq(Frac(0, 1), flesch_kincaid_grade(text))
        /\ FracLeq(Frac(0, 1), report.flesch_reading_ease)
        /\ FracLeq(report.flesch_reading_ease, Frac(100, 1))
        /\ FracLeq(Frac(0, 1), report.flesch_kincaid_grade)

\* a single long word whose unclamped ease is negative
C2_Witness ==
    /\ Returned
    /\ report.word_count = 1
    /\ report.sentence_count = 1
    /\ report.syllable_count >= 8
    /\ FracLess(EaseScore(Frac(report.word_count, report.sentence_count),
                          Frac(report.syllable_count, report.word_count)),
                Frac(0, 1))
    /\ report.flesch_reading_ease = Frac(0, 10)

NoWordChar(t) == \A i \in 1..Len(t) : ~IsWordChar(t[i])
OnlySpace(t) == \A i \in 1..Len(t) : IsSpace(t[i])

\* C3: a text without any word character is analysed without an exception and
\* gets word_count 0, syllable_count 0, ease 0, grade 0 and the classification
\* of grade 0; the empty and the whitespace-only text also get sentence_count 1.
C3_EmptyInput ==
    (fn = "analyze_readability" /\ pc # "call" /\ NoWordChar(text)) =>
        /\ pc = "return"
        /\ report.word_count = 0
        /\ report.syllable_count = 0
        /\ report.flesch_reading_ease = Frac(0, 10)
        /\ report.flesch_kincaid_grade = Frac(0, 10)
        /\ report.difficulty_level = "beginner"
        /\ report.grade_band = "elementary"
        /\ OnlySpace(text) => report.sentence_count = 1

C3_Witness ==
    /\ Returned
    /\ text = <<" ", " ">>
    /\ report.word_count = 0
    /\ report.sentence_count = 1

\* C4: analyze_readability raises for no text, and the report it returns is
\* complete.
C4_Total ==
    fn = "analyze_readability" =>
        /\ pc \in {"call", "return"}
        /\ pc = "return" =>
              /\ report.difficulty_level \in {"beginner", "intermediate", "advanced"}
              /\ report.grade_band \in {"elementary", "middle", "high", "adult"}
              /\ report.readability_description # ""
              /\ report.estimated_minutes >= 1
              /\ report.avg_words_per_sentence.d = 10
              /\ report.avg_syllables_per_word.d = 100
              /\ report.flesch_reading_ease.d = 10
              /\ report.flesch_kincaid_grade.d = 10

\* a text of sentence delimiters only: no segment, no word
C4_Witness ==
    /\ Returned
    /\ text = <<".", ".", ".">>
    /\ report.word_count = 0
    /\ report.sentence_count = 1

\* C5: the classification is decided by the grade that flesch_kincaid_grade
\* returns: <= 5 beginner/elementary, <= 8 intermediate/middle, <= 12
\* advanced/high, above 12 advanced/adult.
C5_Classification ==
    Returned =>
        LET g == flesch_kincaid_grade(text)
            class == <<report.difficulty_level, report.grade_band>>
        IN  /\ FracLeq(g, Frac(5, 1)) => class = <<"beginner", "elementary">>
            /\ (FracLess(Frac(5, 1), g) /\ FracLeq(g, Frac(8, 1)))
                  => class = <<"intermediate", "middle">>
            /\ (FracLess(Frac(8, 1), g) /\ FracLeq(g, Frac(12, 1)))
                  => class = <<"advanced", "high">>
            /\ FracLess(Frac(12, 1), g) => class = <<"advanced", "adult">>

C5_Witness ==
    /\ Returned
    /\ FracLess(Frac(5, 1), flesch_kincaid_grade(text))
    /\ FracLeq(flesch_kincaid_grade(text), Frac(8, 1))
    /\ report.difficulty_level = "intermediate"
    /\ report.grade_band = "middle"

\* C6: the classification of a report agrees with the flesch_kincaid_grade
\* that the report lists (the grade rounded to one decimal).
C6_ReportedGradeClassifies ==
    Returned =>
        /\ report.difficulty_level = DifficultyOf(report.flesch_kincaid_grade)
        /\ report.grade_band = GradeBandOf(report.flesch_kincaid_grade)

\* C7: difficulty_level and grade_band of a report are consistent.
C7_LevelBandConsistent ==
    Returned =>
        /\ report.difficulty_level \in {"beginner", "intermediate", "advanced"}
        /\ report.grade_band \in {"elementary", "middle", "high", "adult"}
        /\ report.difficulty_level = "beginner" <=> report.grade_band = "elementary"
        /\ report.difficulty_level = "intermediate" <=> report.grade_band = "middle"
        /\ report.difficulty_level = "advanced"
              <=> report.grade_band \in {"high", "adult"}

C7_Witness ==
    /\ Returned
    /\ report.difficulty_level = "advanced"
    /\ report.grade_band = "adult"

RECURSIVE GCD(_, _)
GCD(a, b) == IF b = 0 THEN a ELSE GCD(b, a % b)

\* a fraction in lowest terms
Lowest(x) ==
    LET g == GCD(IF x.n < 0 THEN -x.n ELSE x.n, x.d)
    IN  Frac(x.n \div g, x.d \div g)

\* C8: for word_count > 0 the scores are the closed forms over the counts W, S
\* and Y that the report lists: the ease clamped to [0, 100], the grade clamped
\* to >= 0 only; the report lists both rounded to one decimal.
C8_ClosedForms ==
    (Returned /\ report.word_count > 0) =>
        LET W == report.word_count
            S == report.sentence_count
            Y == report.syllable_count
            ease == Frac(206835 * S * W - 1015 * W * W - 84600 * Y * S,
                         1000 * S * W)
            grade == Frac(39 * W * W + 1180 * Y * S - 1559 * S * W, 100 * S * W)
            clamped_ease == FracMax(Frac(0, 1), FracMin(Frac(100, 1), ease))
            clamped_grade == FracMax(Frac(0, 1), grade)
        IN  /\ Lowest(flesch_reading_ease(text)) = Lowest(clamped_ease)
            /\ Lowest(flesch_kincaid_grade(text)) = Lowest(clamped_grade)
            /\ report.flesch_reading_ease = RoundTo(clamped_ease, 10)
            /\ report.flesch_kincaid_grade = RoundTo(clamped_grade, 10)

\* a grade above 12 is returned as it is
C8_Witness ==
    /\ Returned
    /\ report.word_count > 0
    /\ FracLess(Frac(12, 1), flesch_kincaid_grade(text))
    /\ FracLess(Frac(12, 1), report.flesch_kincaid_grade)

\* C9: with adjustment 'appropriate' the base range of the tier is returned.
C9_Appropriate ==
    (Calibrated /\ target_challenge = "appropriate") =>
        /\ user_level = "beginner" => grade_range = <<2, 5>>
        /\ user_level = "intermediate" => grade_range = <<6, 8>>
        /\ user_level = "advanced" => grade_range = <<9, 12>>

C9_Witness ==
    /\ Calibrated
    /\ user_level = "advanced"
    /\ target_challenge = "appropriate"
    /\ grade_range = <<9, 12>>

\* the base range of a tier, as the documentation of the calibrator tables it
TierBase(level) ==
    IF level = "beginner" THEN <<2, 5>>
    ELSE IF level = "advanced" THEN <<9, 12>>
    ELSE <<6, 8>>

\* C10: with adjustment 'easier' the range is (max(1, min - 2), max(3, max - 2))
\* of the tier's base range: (1, 3), (4, 6) and (7, 10) for the three tiers.
C10_Easier ==
    (Calibrated /\ target_challenge = "easier") =>
        /\ grade_range = <<Max(1, TierBase(user_level)[1] - 2),
                           Max(3, TierBase(user_level)[2] - 2)>>
        /\ user_level = "beginner" => grade_range = <<1, 3>>
        /\ user_level = "intermediate" => grade_range = <<4, 6>>
        /\ user_level = "advanced" => grade_range = <<7, 10>>

C10_Witness ==
    /\ Calibrated
    /\ user_level = "beginner"
    /\ target_challenge = "easier"
    /\ grade_range = <<1, 3>>

\* C11: with adjustment 'challenging' both bounds of the tier's base range are
\* raised by exactly 2, without a ceiling: advanced gives (11, 14), and the
\* range is as wide as the base range.
C11_Challenging ==
    (Calibrated /\ target_challenge = "challenging") =>
        /\ grade_range = <<TierBase(user_level)[1] + 2, TierBase(user_level)[2] + 2>>
        /\ grade_range[2] - grade_range[1]
              = TierBase(user_level)[2] - TierBase(user_level)[1]
        /\ user_level = "advanced" => grade_range = <<11, 14>>

C11_Witness ==
    /\ Calibrated
    /\ user_level = "advanced"
    /\ target_challenge = "challenging"
    /\ grade_range = <<11, 14>>
    /\ grade_range[2] > 12

\* C12: for every tier value and every adjustment value the range returned
\* satisfies 1 <= min_grade < max_grade.
C12_RangeProper ==
    Calibrated => (1 <= grade_range[1] /\ grade_range[1] < grade_range[2])

\* the case where the floor of min_grade at 1 acts
C12_Witness ==
    /\ Calibrated
    /\ user_level = "beginner"
    /\ target_challenge = "easier"
    /\ grade_range[1] = 1
    /\ BaseRange(user_level)[1] - 2 < 1

Tiers == {"beginner", "intermediate", "advanced"}

\* C13: a tier that is not exactly one of the three tiers gets, for every
\* adjustment, the range of tier 'intermediate' with the same adjustment.
C13_UnknownTier ==
    (fn = "get_difficulty_for_user" /\ pc # "call" /\ user_level \notin Tiers) =>
        /\ pc = "return"
        /\ target_challenge = "easier" => grade_range = <<4, 6>>
        /\ target_challenge = "challenging" => grade_range = <<8, 10>>
        /\ target_challenge \notin {"easier", "challenging"}
              => grade_range = <<6, 8>>

\* a tier in another letter case
C13_Witness ==
    /\ Calibrated
    /\ user_level = "Beginner"
    /\ target_challenge = "easier"
    /\ grade_range = <<4, 6>>

\* C14: an adjustment that is not exactly 'easier' or 'challenging' leaves the
\* base range of the (possibly defaulted) tier unchanged.
C14_UnknownAdjustment ==
    (fn = "get_difficulty_for_user" /\ pc # "call"
       /\ target_challenge \notin {"easier", "challenging"}) =>
        /\ pc = "return"
        /\ grade_range = TierBase(user_level)

\* an unrecognized adjustment with an unrecognized tier
C14_Witness ==
    /\ Calibrated
    /\ user_level = "expert"
    /\ target_challenge = "harder"
    /\ grade_range = <<6, 8>>

CountReturned(f) == fn = f /\ pc = "return"

\* the number of maximal runs of characters of text t that satisfy P
Runs(t, P(_)) ==
    Cardinality({i \in 1..Len(t) : P(t[i]) /\ (i = 1 \/ ~P(t[i - 1]))})

IsVowelLetter(c) == c \in {"a", "e", "i", "o", "u", "y", "A", "E", "I", "O", "U", "Y"}

\* C15: count_syllables(word) is max(1, R - E): R the number of maximal runs
\* of vowels of the lowercased word, E 1 when it ends in the letter e; it is
\* at least 1 for every word.
C15_Syllables ==
    CountReturned("count_syllables") =>
        LET R == Runs(text, IsVowelLetter)
            E == IF text # <<>> /\ text[Len(text)] \in {"e", "E"} THEN 1 ELSE 0
        IN  /\ count = Max(1, R - E)
            /\ count >= 1

\* a word of a digit and an underscore
C15_Witness ==
    /\ CountReturned("count_syllables")
    /\ text = <<"1", "_">>
    /\ count = 1

\* a segment of text t starts at i and holds a character that is not whitespace
SentenceStartsAt(t, i) ==
    /\ ~IsSentenceEnd(t[i])
    /\ i = 1 \/ IsSentenceEnd(t[i - 1])
    /\ \E j \in i..Len(t) :
          /\ ~IsSpace(t[j])
          /\ \A k \in i..j : ~IsSentenceEnd(t[k])

\* C16: count_sentences(text) is the number of segments between maximal runs of
\* '.', '!' and '?' that are not empty after trimming whitespace, and 1 when
\* there is none.
C16_Sentences ==
    CountReturned("count_sentences") =>
        LET segments == Cardinality({i \in 1..Len(text) : SentenceStartsAt(text, i)})
        IN  count = IF segments = 0 THEN 1 ELSE segments

\* a leading delimiter and a trailing run of delimiters add no sentence
C16_Witness ==
    /\ CountReturned("count_sentences")
    /\ text = <<".", "a", "?", "!">>
    /\ count = 1

IsLetter(c) ==
    \/ \E i \in 1..Len(LowercaseLetters) : LowercaseLetters[i] = c
    \/ \E i \in 1..Len(UppercaseLetters) : UppercaseLetters[i] = c
IsDigit(c) == c \in {"0", "1", "2", "3", "4", "5", "6", "7", "8", "9"}
IsAlphanumeric(c) == IsLetter(c) \/ IsDigit(c)
IsAlphanumericOrUnderscore(c) == IsAlphanumeric(c) \/ c = "_"

\* str.upper on one character
UpperChar(c) ==
    CASE c = "a" -> "A"
      [] c = "b" -> "B"
      [] c = "e" -> "E"
      [] c = "y" -> "Y"
      [] OTHER -> c

Upper(t) == [i \in 1..Len(t) |-> UpperChar(t[i])]

\* word_count and syllable_count of text t are those of t in another case
CaseBlind(t) ==
    /\ count_words(Upper(t)) = count_words(t)
    /\ count_words(Lower(t)) = count_words(t)
    /\ SumSyllables(FindWords(Upper(t))) = SumSyllables(FindWords(t))
    /\ SumSyllables(FindWords(Lower(t))) = SumSyllables(FindWords(t))

\* C17 as claimed: word_count is the number of maximal runs of alphanumeric
\* characters, every punctuation character being a delimiter, and the letter
\* case changes neither word_count nor syllable_count.
C17_AlphanumericRuns ==
    CountReturned("count_words") =>
        /\ count = Runs(text, IsAlphanumeric)
        /\ CaseBlind(text)

\* what count_words computes: the number of maximal runs of alphanumeric
\* characters and underscores, every other character being a delimiter, and
\* the letter case changes neither word_count nor syllable_count.
C17_WordCharacterRuns ==
    CountReturned("count_words") =>
        /\ count = Runs(text, IsAlphanumericOrUnderscore)
        /\ CaseBlind(text)

\* an underscore joins two letters into one word
C17_UnderscoreJoins ==
    /\ CountReturned("count_words")
    /\ text = <<"a", "_", "E">>
    /\ count = 1
    /\ Runs(text, IsAlphanumeric) = 2

\* C18: estimated_minutes is an integer >= 1 and equals max(1, r) for r the
\* integer nearest to word_count / 150; one more word never gives a smaller
\* estimated_minutes.
C18_EstimatedMinutes ==
    (fn = "analyze_readability" /\ pc = "estimated") =>
        LET m == report.estimated_minutes
            W == report.word_count
        IN  /\ m \in Nat
            /\ m >= 1
            /\ m >= 2 => (2 * (150 * m - W) <= 150 /\ 2 * (W - 150 * m) <= 150)
            /\ m = 1 => 2 * W <= 3 * 150
            /\ EstimatedMinutes(W + 1) >= m

\* 375 words: 2.5 minutes, rounded to 2
C18_Witness ==
    /\ fn = "analyze_readability"
    /\ pc = "estimated"
    /\ report.word_count = 375
    /\ report.estimated_minutes = 2

\* C19: readability_description of a report is the bucket of the
\* flesch_reading_ease that the report lists (the ease rounded to one
\* decimal), under the thresholds 90, 80, 70, 60, 50 and 30.
C19_ReportedEaseDescribes ==
    Returned =>
        report.readability_description
            = get_readability_description(report.flesch_reading_ease)

\* x <= y and x < y for fractions, over the least common denominator
Leq(x, y) ==
    LET g == GCD(x.d, y.d) IN x.n * (y.d \div g) <= y.n * (x.d \div g)
Less(x, y) ==
    LET g == GCD(x.d, y.d) IN x.n * (y.d \div g) < y.n * (x.d \div g)

BothReturned == fn = "analyze_readability" /\ pc = "both"

\* the first text has the words of the second, at least its sentences and at
\* most its syllables
EasierCounts ==
    /\ report.word_count = other_report.word_count
    /\ report.word_count > 0
    /\ report.sentence_count >= other_report.sentence_count
    /\ report.syllable_count <= other_report.syllable_count

\* C20: of two texts with the same word_count > 0, the one with at least as
\* many sentences and at most as many syllables has the lower or equal grade
\* (lower when a count differs and the other grade is above 0) and the higher
\* or equal reading ease.
C20_Monotone ==
    (BothReturned /\ EasierCounts) =>
        LET grade == flesch_kincaid_grade(text)
            other_grade == flesch_kincaid_grade(other_text)
            ease == flesch_reading_ease(text)
            other_ease == flesch_reading_ease(other_text)
        IN  /\ Leq(grade, other_grade)
            /\ Leq(other_ease, ease)
            /\ ( /\ \/ report.sentence_count # other_report.sentence_count
                    \/ report.syllable_count # other_report.syllable_count
                 /\ Less(Frac(0, 1), other_grade) )
               => Less(grade, other_grade)

\* more sentences and fewer syllables, and a grade that is lower
C20_Witness ==
    /\ BothReturned
    /\ EasierCounts
    /\ report.sentence_count > other_report.sentence_count
    /\ report.syllable_count < other_report.syllable_count
    /\ Less(Frac(0, 1), flesch_kincaid_grade(text))
    /\ Less(flesch_kincaid_grade(text), flesch_kincaid_grade(other_text))
    /\ Less(flesch_reading_ease(other_text), flesch_reading_ease(text))

\* C21: for the sample text of the example run, analyze_readability reports
\* sentence_count = 3, a positive word_count and difficulty_level beginner.
C21_SampleText ==
    (Returned /\ text \in {SampleText, MainSampleText}) =>
        /\ report.sentence_count = 3
        /\ report.word_count > 0
        /\ report.difficulty_level = "beginner"

\* the sample as the example run writes it: 27 words, grade 1.9
C21_Witness ==
    /\ Returned
    /\ text = MainSampleText
    /\ report.word_count = 27
    /\ report.sentence_count = 3
    /\ report.flesch_kincaid_grade = Frac(19, 10)
    /\ report.difficulty_level = "beginner"
\* the arguments of a recorded call, and what it gave back
ArgumentsOf(call) ==
    <<call.fn, call.text, call.user_level, call.target_challenge>>
ResultOf(call) == <<call.raised, call.report, call.grade_range>>

ReturnsAsAlone(self) ==
    frames[self].pc = "return" =>
        IF frames[self].fn = "analyze_readability"
        THEN /\ analyze_readability(frames[self].text).raised = ""
             /\ frames[self].report = analyze_readability(frames[self].text).value
        ELSE frames[self].grade_range =
                 get_difficulty_for_user(frames[self].user_level,
                                         frames[self].target_challenge)

\* a step changes the frame of one thread and nothing else
OneFrameWritten ==
    /\ \E self \in Threads : \A other \in Threads \ {self} :
          frames'[other] = frames[other]
    /\ UNCHANGED core
    /\ UNCHANGED <<calls, difficulty, response, passage_data, passage_row,
                   level_estimate, feedback>>

\* C23: under any interleaving of concurrent calls of analyze_readability and
\* get_difficulty_for_user, each call returns the result it returns when run
\* alone on its own input, and no call writes a variable of another call.
C23_Isolated ==
    /\ [](\A self \in Threads : ReturnsAsAlone(self))
    /\ [][OneFrameWritten]_vars

\* thread 1 returned its report while thread 2, on another text, is between
\* two of its statements
C23_Witness ==
    /\ frames[1].pc = "return"
    /\ frames[1].fn = "analyze_readability"
    /\ frames[1].text = ComposedText(1, 1, 1)
    /\ frames[1].report.word_count = 3
    /\ frames[2].fn = "analyze_readability"
    /\ frames[2].text = ComposedText(0, 0, 1)
    /\ frames[2].pc = "scores"
\* generate_passage returned what it built from the completion, not the
\* fallback passage
Generated ==
    /\ fn = "get_reading_sample"
    /\ pc \in {"generated", "stored", "failed"}
    /\ "actual_difficulty" \in DOMAIN passage_data

\* C24: for every successfully generated passage, the word_count,
\* estimated_minutes, difficulty_level, grade_band, flesch_reading_ease and
\* flesch_kincaid_grade stored with the passage equal the fields of the report
\* analyze_readability computes on the passage content.
C24_StoredAsReported ==
    (Generated /\ pc = "stored") =>
        LET measured == analyze_readability(passage_row.content.value).value
        IN  /\ passage_row.word_count = measured.word_count
            /\ passage_row.estimated_minutes = measured.estimated_minutes
            /\ passage_row.difficulty_level = measured.difficulty_level
            /\ Get(passage_row, "grade_band") = measured.grade_band
            /\ passage_row.flesch_ease = measured.flesch_reading_ease
            /\ passage_row.readability_score = measured.flesch_kincaid_grade

\* what the code does store of the report: the two scores, the word count and
\* the reading time; difficulty_level is the requested one
C24_StoredScores ==
    (Generated /\ pc = "stored") =>
        LET measured == analyze_readability(passage_row.content.value).value
        IN  /\ passage_row.word_count = measured.word_count
            /\ passage_row.estimated_minutes = measured.estimated_minutes
            /\ passage_row.flesch_ease = measured.flesch_reading_ease
            /\ passage_row.readability_score = measured.flesch_kincaid_grade
            /\ passage_row.difficulty_level = difficulty
            /\ "grade_band" \notin DOMAIN passage_row
\* a step inside the try block of generate_passage fails on this completion
GenerationFails(completion) ==
    \/ completion.kind \in {"error", "not_json", "array"}
    \/ /\ completion.kind = "object"
       /\ \/ "content" \notin DOMAIN completion.data
          \/ completion.data.content.type # "string"
          \/ analyze_readability(completion.data.content.value).raised # ""

\* the keys that hold what analyze_readability measured
ScoreKeys ==
    {"readability_score", "flesch_ease", "estimated_minutes",
     "actual_difficulty", "grade_band"}

\* C30: generate_passage never raises to its caller.  When the generation
\* call, the JSON parsing, a missing 'content' field or the readability
\* analysis fails it returns the fallback passage, whose difficulty_level is
\* the requested difficulty and which carries no readability scores; on success
\* the returned difficulty_level is the requested tier and the measured tier
\* is carried in actual_difficulty.
C30_NeverRaises ==
    (fn = "get_reading_sample" /\ pc # "call") =>
        /\ pc # "raise"
        /\ GenerationFails(response) =>
               /\ passage_data = FallbackPassage(Topic, difficulty)
               /\ passage_data.difficulty_level = difficulty
               /\ DOMAIN passage_data \cap ScoreKeys = {}
        /\ ~GenerationFails(response) =>
               /\ passage_data.difficulty_level = difficulty
               /\ passage_data.actual_difficulty =
                      analyze_readability(response.data.content.value)
                          .value.difficulty_level
               /\ passage_data.content = response.data.content

\* a completion without 'content': the fallback passage for the requested tier
C30_Witness ==
    /\ fn = "get_reading_sample"
    /\ pc = "generated"
    /\ difficulty = "advanced"
    /\ response = [kind |-> "object", data |-> [title |-> JsonString(<<"T">>)]]
    /\ passage_data.word_count = 50
    /\ passage_data.difficulty_level = "advanced"
    /\ "actual_difficulty" \notin DOMAIN passage_data
Backends == {"postgres", "sqlite"}

\* C25: the adjustment policy promotes on repeated 'too_easy' and demotes on
\* repeated 'too_hard' feedback: a 'too_easy' or 'too_hard' feedback that is
\* not preceded by the same feedback leaves level_estimate unchanged.
C25_RepeatedOnly ==
    \A i \in DOMAIN calls :
        (/\ calls[i].feedback \in {"too_easy", "too_hard"}
         /\ i = 1 \/ calls[i - 1].feedback # calls[i].feedback) =>
            calls[i].after = calls[i].before

\* the position of a tier in beginner < intermediate < advanced
TierRank(tier) ==
    CASE tier = "beginner" -> 1
      [] tier = "intermediate" -> 2
      [] tier = "advanced" -> 3

TierOfRank(rank) ==
    CASE rank = 1 -> "beginner"
      [] rank = 2 -> "intermediate"
      [] rank = 3 -> "advanced"

\* C26: from a level_estimate among the three tiers, after any sequence of
\* submit_reading_feedback calls level_estimate is still a tier; each call
\* moves it by at most one tier, 'too_easy' up and 'too_hard' down, 'too_easy'
\* at advanced and 'too_hard' at beginner leave it unchanged, and every other
\* feedback leaves it unchanged.
C26_TierSteps ==
    \A b \in Backends :
        /\ \A i \in DOMAIN calls :
              LET old == calls[i].before[b]
                  new == calls[i].after[b]
              IN  /\ i > 1 => old = calls[i - 1].after[b]
                  /\ old \in Tiers =>
                        /\ new \in Tiers
                        /\ calls[i].feedback = "too_easy" =>
                               new = TierOfRank(IF TierRank(old) = 3 THEN 3
                                                ELSE TierRank(old) + 1)
                        /\ calls[i].feedback = "too_hard" =>
                               new = TierOfRank(IF TierRank(old) = 1 THEN 1
                                                ELSE TierRank(old) - 1)
                        /\ calls[i].feedback \notin {"too_easy", "too_hard"} =>
                               new = old
        /\ calls # <<>> =>
              /\ level_estimate[b] = calls[Len(calls)].after[b]
              /\ calls[1].before[b] \in Tiers => level_estimate[b] \in Tiers

\* up from intermediate, held at advanced, down again
C26_Witness ==
    /\ Len(calls) = 3
    /\ calls[1].before = [postgres |-> "intermediate", sqlite |-> "intermediate"]
    /\ calls[1].feedback = "too_easy"
    /\ calls[2].feedback = "too_easy"
    /\ calls[2].after = [postgres |-> "advanced", sqlite |-> "advanced"]
    /\ calls[3].feedback = "too_hard"
    /\ level_estimate = [postgres |-> "intermediate", sqlite |-> "intermediate"]

\* C27: the PostgreSQL branch and the SQLite branch of submit_reading_feedback
\* compute the same new level_estimate for every current value (a tier, an
\* unrecognized string, null) and every feedback, so the two back ends stay
\* in the same tier after the same sequence of feedbacks.
C27_BranchesAgree ==
    /\ level_estimate.postgres = level_estimate.sqlite
    /\ \A i \in DOMAIN calls :
          /\ calls[i].before.postgres = calls[i].before.sqlite
          /\ calls[i].after.postgres = calls[i].after.sqlite

\* a null level_estimate stays null in both databases, whatever the feedback
C27_Witness ==
    /\ Len(calls) = 3
    /\ calls[1].before = [postgres |-> "None", sqlite |-> "None"]
    /\ calls[1].feedback = "too_easy"
    /\ calls[2].feedback = "too_hard"
    /\ calls[3].feedback = "None"
    /\ level_estimate = [postgres |-> "None", sqlite |-> "None"]
Adjustments == {"easier", "appropriate", "challenging"}

\* the position of an adjustment in easier < appropriate < challenging
AdjustmentRank(adjustment) ==
    CASE adjustment = "easier" -> 1
      [] adjustment = "appropriate" -> 2
      [] adjustment = "challenging" -> 3

\* C28: for every adjustment the calibrator's ranges are ordered by tier (both
\* bounds for beginner are below those for intermediate, which are below
\* those for advanced), and for every tier they are ordered by adjustment:
\* each bound under 'easier' is strictly below the same bound under
\* 'appropriate', which is strictly below it under 'challenging'.
C28_Ordered ==
    (Calibrated /\ user_level \in Tiers /\ target_challenge \in Adjustments) =>
        /\ \A higher \in Tiers :
              TierRank(user_level) < TierRank(higher) =>
                  LET above == get_difficulty_for_user(higher, target_challenge)
                  IN  /\ grade_range[1] < above[1]
                      /\ grade_range[2] < above[2]
                      /\ grade_range[2] < above[1]
        /\ \A harder \in Adjustments :
              AdjustmentRank(target_challenge) < AdjustmentRank(harder) =>
                  LET raised == get_difficulty_for_user(user_level, harder)
                  IN  /\ grade_range[1] < raised[1]
                      /\ grade_range[2] < raised[2]

\* the lowest range, where both floors of 'easier' apply
C28_Witness ==
    /\ Calibrated
    /\ user_level = "beginner"
    /\ target_challenge = "easier"
    /\ grade_range = <<1, 3>>
    /\ get_difficulty_for_user("beginner", "appropriate") = <<2, 5>>
    /\ get_difficulty_for_user("intermediate", "easier") = <<4, 6>>

\* grade g lies inside the range
InRange(g, range) ==
    FracLeq(Frac(range[1], 1), g) /\ FracLeq(g, Frac(range[2], 1))

\* every grade in tenths inside the base range of a tier is classified as
\* that tier
TenthsAgree ==
    \A tier \in Tiers :
        LET range == get_difficulty_for_user(tier, "appropriate")
        IN  \A tenths \in (10 * range[1])..(10 * range[2]) :
                DifficultyOf(Frac(tenths, 10)) = tier

\* C29: the calibrator and the scorer agree on tiers: for each tier T, every
\* grade inside the range get_difficulty_for_user(T, 'appropriate') is
\* classified by the thresholds of analyze_readability as difficulty_level T.
C29_TiersAgree ==
    /\ Returned =>
          LET grade == flesch_kincaid_grade(text)
          IN  \A tier \in Tiers :
                  InRange(grade, get_difficulty_for_user(tier, "appropriate")) =>
                      report.difficulty_level = tier
    /\ TenthsAgree

\* a text whose grade lies inside the base range of tier intermediate
C29_Witness ==
    /\ Returned
    /\ InRange(flesch_kincaid_grade(text),
               get_difficulty_for_user("intermediate", "appropriate"))
    /\ report.difficulty_level = "intermediate"
====
